---- MODULE Spec2Model ----
(***************************************************************************)
(* Model of QtAV's AVPlayer::Private (src/src/AVPlayerPrivate.cpp): the    *)
(* audio/video pipeline setup (setupAudioThread, setupVideoThread), the    *)
(* statistics snapshot (initStatistics and friends) and                    *)
(* Internal::computeNotifyPrecision.                                       *)
(*                                                                         *)
(* The demuxer, the decoders, the audio output device and the packet       *)
(* reader are collaborators whose code is not in this file; they are       *)
(* modelled from their interfaces and every outcome they can report is an  *)
(* input chosen with \E.                                                   *)
(***************************************************************************)
EXTENDS Integers, Sequences, FiniteSets, TLC

\* ------------------------------------------------------------------ bounds
\* Longest packet queue content the model follows.
MaxQueue == 1

\* ------------------------------------------------------- helper operators
Range(s) == {s[i] : i \in 1..Len(s)}

Max(a, b) == IF a >= b THEN a ELSE b

Min(a, b) == IF a <= b THEN a ELSE b

\* Smallest instance number not in used: the address of a new object.
Fresh(used) ==
    CHOOSE n \in 0..Cardinality(used) :
        n \notin used /\ \A m \in 0..(n - 1) : m \in used

\* ------------------------------------------------- the media (demuxer side)
\* Frame rates are rationals <<num, den>> (AVRational avg_frame_rate).
\* Audio codec contexts carry the fields the setup code reads.
ASurround ==
    [codec |-> "ac3", channels |-> 6, channel_layout |-> "5.1",
     sample_fmt |-> "fltp", sample_rate |-> 48000,
     meta |-> {<<"title", "surround">>}]

\* channels unset, layout known (first branch of correct_audio_channels)
AMono ==
    [codec |-> "pcm", channels |-> 0, channel_layout |-> "mono",
     sample_fmt |-> "u8", sample_rate |-> 96000,
     meta |-> {}]

\* layout unset, channels known (second branch of correct_audio_channels)
ANoLayout ==
    [codec |-> "mp3", channels |-> 2, channel_layout |-> "none",
     sample_fmt |-> "s16p", sample_rate |-> 44100,
     meta |-> {<<"language", "eng">>}]

V25 ==
    [codec |-> "h264", frame_rate |-> <<25, 1>>,
     meta |-> {<<"language", "eng">>}]

\* avg_frame_rate "may be nan or 0" (comment at line 264)
VZero ==
    [codec |-> "mjpeg", frame_rate |-> <<0, 1>>,
     meta |-> {}]

\* The sources that can be loaded: duration in ms, audio and video streams.
Medias ==
    << [duration |-> 15000, audio |-> <<AMono>>, video |-> <<V25>>],
       [duration |-> 120000, audio |-> <<>>, video |-> <<VZero>>],
       [duration |-> 0, audio |-> <<ANoLayout, ASurround>>, video |-> <<>>],
       [duration |-> 15000, audio |-> <<AMono>>, video |-> <<V25, VZero>>] >>

\* Track indexes a caller may select among n streams: every stream, and
\* index n, which names no stream.
TrackInputs(n) == 0..n

\* av_get_channel_layout_nb_channels
NbChannels(layout) ==
    CASE layout = "mono" -> 1
      [] layout = "stereo" -> 2
      [] layout = "5.1" -> 6
      [] OTHER -> 0

\* av_get_default_channel_layout
DefaultLayout(channels) ==
    CASE channels = 1 -> "mono"
      [] channels = 2 -> "stereo"
      [] channels = 6 -> "5.1"
      [] OTHER -> "none"

\* ------------------------------------------------ the audio output devices
\* Capabilities of the audio output implementations AudioOutputFactory can
\* create, by AudioOutputId.  Device 1 accepts every format; device 2 is a
\* restricted device.
DevCaps ==
    << [formats |-> {"u8", "s16", "flt", "s16p", "fltp"},
        layouts |-> {"none", "mono", "stereo", "5.1"},
        rates |-> {0, 44100, 48000, 96000},
        preferredSampleFormat |-> "s16",
        preferredChannelLayout |-> "stereo"],
       [formats |-> {"s16"},
        layouts |-> {"stereo"},
        rates |-> {44100, 48000},
        preferredSampleFormat |-> "s16",
        preferredChannelLayout |-> "stereo"] >>

\* AudioOutput::isSupported(SampleFormat)
SupportsSampleFormat(dev, sf) == sf \in DevCaps[dev].formats

\* AudioOutput::isSupported(ChannelLayout)
SupportsChannelLayout(dev, cl) == cl \in DevCaps[dev].layouts

\* AudioOutput::isSupported(const AudioFormat&): what the device accepts
IsSupported(dev, af) ==
    /\ af.sampleFormat \in DevCaps[dev].formats
    /\ af.channelLayout \in DevCaps[dev].layouts
    /\ af.sampleRate \in DevCaps[dev].rates

\* AudioFormat::isPlanar
IsPlanar(af) == af.sampleFormat \in {"s16p", "fltp"}

\* A default-constructed AudioFormat (the format of a device never configured)
DefaultFormat == [sampleRate |-> 0, sampleFormat |-> "unknown", channelLayout |-> "none"]

\* ---------------------------------------------------------- pure functions
\* The function without its last line's qMax(20, dt)
computeNotifyPrecisionNoFloor(duration, fps) ==
    IF duration <= 0 \/ duration > 60 * 1000
    THEN 500
    ELSE IF duration > 20 * 1000
    THEN 250
    ELSE IF fps[1] > fps[2]
    THEN Min(250, (500 * 2 * fps[2]) \div fps[1])
    ELSE duration \div 80

\* Internal::computeNotifyPrecision(duration, fps), fps = <<num, den>>
computeNotifyPrecision(duration, fps) ==
    IF duration <= 0 \/ duration > 60 * 1000
    THEN 500
    ELSE IF duration > 20 * 1000
    THEN 250
    ELSE LET dt == IF fps[1] > fps[2]
                   THEN Min(250, (500 * 2 * fps[2]) \div fps[1])
                   ELSE duration \div 80
         IN  Max(20, dt)

\* correct_audio_channels(ctx): the codec context after the call
correct_audio_channels(ctx) ==
    IF ctx.channels <= 0
    THEN IF ctx.channel_layout # "none"
         THEN [ctx EXCEPT !.channels = NbChannels(ctx.channel_layout)]
         ELSE ctx
    ELSE IF ctx.channel_layout = "none"
         THEN [ctx EXCEPT !.channel_layout = DefaultLayout(ctx.channels)]
         ELSE ctx

\* The derivation without the branch for more than two channels
DerivedFormatStreamLayout(ctx, dev) ==
    [sampleRate |-> ctx.sample_rate,
     sampleFormat |-> ctx.sample_fmt,
     channelLayout |-> ctx.channel_layout]

\* Lines 327-335: the format derived from the stream
DerivedFormat(ctx, dev) ==
    [sampleRate |-> ctx.sample_rate,
     sampleFormat |-> ctx.sample_fmt,
     channelLayout |-> IF ctx.channels > 2
                       THEN DevCaps[dev].preferredChannelLayout
                       ELSE ctx.channel_layout]

\* Lines 337-339: planar formats are replaced by the preferred sample format
Unplanar(af, dev) ==
    IF IsPlanar(af)
    THEN [af EXCEPT !.sampleFormat = DevCaps[dev].preferredSampleFormat]
    ELSE af

\* Lines 340-347: field-by-field fallback when the whole format is refused
FixFields(af, dev) ==
    IF ~IsSupported(dev, af)
    THEN LET a1 == IF ~SupportsSampleFormat(dev, af.sampleFormat)
                   THEN [af EXCEPT !.sampleFormat = DevCaps[dev].preferredSampleFormat]
                   ELSE af
         IN  IF ~SupportsChannelLayout(dev, a1.channelLayout)
             THEN [a1 EXCEPT !.channelLayout = DevCaps[dev].preferredChannelLayout]
             ELSE a1
    ELSE af

\* Lines 326-347: the negotiated format for an already corrected context
TargetFormat(ctx, dev) == FixFields(Unplanar(DerivedFormat(ctx, dev), dev), dev)

\* A comparison by identity: af is a new object, never the device's own
FormatChangedByIdentity(cur, af) == TRUE

\* Line 348: ao->audioFormat() != af, a comparison by value
FormatChanged(cur, af) == cur # af

\* The threshold without qMax(24.0, ...): int(0.61803 * frame_rate)
QueueMinNoFloor(fr) == (61803 * fr[1]) \div (100000 * fr[2])

\* Lines 386 and 457: int(0.61803 * qMax<qreal>(24.0, frame_rate))
QueueMin(fr) ==
    IF fr[1] > 24 * fr[2]
    THEN (61803 * fr[1]) \div (100000 * fr[2])
    ELSE (61803 * 24) \div 100000

\* Lines 387 and 458: int(1.61803 * queue_min)
QueueMax(qmin) == (161803 * qmin) \div 100000

\* QMap::insert of every tag of a dictionary: existing keys are overwritten,
\* other entries stay.
MetaInsert(old, tags) ==
    {p \in old : \A t \in tags : t[1] # p[1]} \cup tags

\* Statistics::Common()
CommonDefault ==
    [available |-> FALSE, codec |-> "", decoder |-> "", metadata |-> {}]

\* Statistics::AudioOnly()
AudioOnlyDefault ==
    [channels |-> 0, channel_layout |-> "", sample_fmt |-> "", sample_rate |-> 0]

\* Statistics::VideoOnly()
VideoOnlyDefault == [frame_rate |-> <<0, 1>>]

\* Statistics after reset()
StatisticsDefault ==
    [audio |-> CommonDefault, audio_only |-> AudioOnlyDefault,
     video |-> CommonDefault, video_only |-> VideoOnlyDefault]

\* initCommonStatistics(s, st, avctx): the codec fields (codec stands for
\* codec, codec_long, total_time, start_time, bit_rate and frames, all assigned
\* from the same stream) are assigned, the stream's
\* tags are inserted into st->metadata, st->decoder is not touched.
initCommonStatistics(st, stream) ==
    [st EXCEPT !.codec = stream.codec,
               !.metadata = MetaInsert(st.metadata, stream.meta)]

\* VideoDecoderFactory::name(id), AudioDecoder::name()
VideoDecoderName(id) ==
    CASE id = 1 -> "Cedarv"
      [] id = 2 -> "FFmpeg"
      [] id = 3 -> "VAAPI"
      [] OTHER -> "DXVA"

AudioDecoderName == "FFmpeg"

\* ------------------------------------------------------------------- state
VARIABLES
    media,            \* demuxer: index of the loaded source in Medias
    astream,          \* demuxer.audioStream(), -1 when there is none
    vstream,          \* demuxer.videoStream(), -1 when there is none
    actx,             \* demuxer: the audio codec contexts (mutable)
    audio_track,      \* Private::audio_track
    video_track,      \* Private::video_track
    vc_ids,           \* Private::vc_ids, the ordered video decoder candidates
    ao_enabled,       \* Private::ao_enabled
    clock,            \* type of Private::clock
    ao,               \* Private::ao, the audio output device
    adec,             \* Private::adec
    vdec,             \* Private::vdec
    athread,          \* Private::athread with its decoder (and the stream it was
                      \* set up for), output and queue
    vthread,          \* Private::vthread with its decoder and queue
    statistics,       \* Private::statistics
    notify_interval,  \* Private::notify_interval
    live,             \* decoder objects that exist: <<kind, instance>>
    pc,               \* position of the control path
    call,             \* the setup call in progress: "none", "audio", "video"
    vi,               \* setupVideoThread: position of the foreach in vc_ids
    vd,               \* setupVideoThread: the loop's local decoder vd
    tried,            \* what the candidates tried so far in this call did
    ret,              \* return value of the call: "none", "true", "false"
    why,              \* which return statement ended the call
    errors,           \* events on the player's error signal in this call
    devlog,           \* calls made on the audio device in this call
    neg,              \* the device and the two formats compared at line 348 in this call
    made,             \* video candidates constructed in this call, in order
    freed,            \* video candidates destroyed by the loop in this call
    lastA,            \* stream format of the last audio setup that succeeded with a device
    nDuration,        \* computeNotifyPrecision: argument duration
    nFps,             \* computeNotifyPrecision: argument fps
    nResult,          \* computeNotifyPrecision: the value returned, -1 before the call
    awork,            \* the audio thread's worker: the decoder and packet it is using
    vwork             \* the video thread's worker: the decoder and packet it is using

demuxVars == <<media, astream, vstream, actx>>
playerVars == <<audio_track, video_track, vc_ids, ao_enabled, clock, ao, adec, vdec,
                athread, vthread, statistics, notify_interval, live>>
callVars == <<pc, call, vi, vd, tried, ret, why, errors, devlog, neg, made, freed, lastA>>
notifyVars == <<nDuration, nFps, nResult>>
workerVars == <<awork, vwork>>
vars == <<demuxVars, playerVars, callVars, notifyVars, workerVars>>

\* A null decoder pointer
NoDec == [inst |-> -1, id |-> 0, opened |-> FALSE, connected |-> FALSE]

\* A null AudioOutput pointer
NoDev == [dev |-> 0, format |-> DefaultFormat, open |-> FALSE]

\* A null thread pointer
NoThread ==
    [exists |-> FALSE, decoder |-> -1, stream |-> -1, output |-> 0, queue |-> <<>>,
     threshold |-> 0, capacity |-> 0]

\* A worker that is not decoding
NoWork == [busy |-> FALSE, dec |-> -1, pkt |-> -1, for |-> -1]

NoNeg == [done |-> FALSE, dev |-> 0, cur |-> DefaultFormat, af |-> DefaultFormat]

NoFmt == [sample_rate |-> -1, sample_fmt |-> "", channels |-> -1, channel_layout |-> ""]

\* The four fields of a codec context the negotiation reads
StreamFormat(ctx) ==
    [sample_rate |-> ctx.sample_rate, sample_fmt |-> ctx.sample_fmt,
     channels |-> ctx.channels, channel_layout |-> ctx.channel_layout]

\* Line 124-137: the audio output ids compiled in
ao_ids == <<1, 2>>

\* ----------------------------------------------------------- the demuxer
NumAudio == Len(Medias[media].audio)
NumVideo == Len(Medias[media].video)

\* demuxer.audioCodecContext() / videoCodecContext() is non-null
HasAudioCtx == astream # -1
HasVideoCtx == vstream # -1

audioCodecContext == actx[astream + 1]
videoCodecContext == Medias[media].video[vstream + 1]

\* AVDemuxer::setStreamIndex(type, index): an index that names no stream of
\* the kind is refused and the selected stream stays.
setStreamIndex(cur, n, index) ==
    IF index >= 0 /\ index < n THEN index ELSE cur

\* demuxer.duration(), demuxer.frameRate()
demuxerDuration == Medias[media].duration
demuxerFrameRate == IF HasVideoCtx THEN videoCodecContext.frame_rate ELSE <<0, 1>>

\* The stream a freshly loaded source selects
FirstStream(streams) == IF Len(streams) > 0 THEN 0 ELSE -1

\* -------------------------------------------------------- initial state
\* The configurations explored: a source and the candidate list vc_ids.  The
\* constructor's list (lines 113-123) depends on the build, and the player's
\* priority setter replaces it.
Configs ==
    { [media |-> 1, vc_ids |-> <<2, 1>>],
      [media |-> 2, vc_ids |-> << >>],
      [media |-> 2, vc_ids |-> <<3, 2, 1>>],
      [media |-> 3, vc_ids |-> <<2>>] }

\* What a failing decoder reports on its own error signal from open()
OwnErrors == {"none", "CodecError", "CodecNotFound"}

\* The state of the call bookkeeping outside a call
CallIdle ==
    /\ pc = "idle"
    /\ call = "none"
    /\ vi = 0
    /\ vd = NoDec
    /\ tried = << >>
    /\ ret = "none"
    /\ why = ""
    /\ errors = << >>
    /\ devlog = << >>
    /\ neg = NoNeg
    /\ made = << >>
    /\ freed = << >>

\* AVPlayer::Private::Private() followed by the load of one of the sources
InitPlayer ==
    /\ \E c \in Configs : media = c.media /\ vc_ids = c.vc_ids
    /\ astream = FirstStream(Medias[media].audio)
    /\ vstream = FirstStream(Medias[media].video)
    /\ actx = Medias[media].audio
    /\ audio_track = 0
    /\ video_track = 0
    /\ ao_enabled = TRUE
    /\ clock = "AudioClock"
    /\ ao = NoDev
    /\ adec = NoDec
    /\ vdec = NoDec
    /\ athread = NoThread
    /\ vthread = NoThread
    /\ statistics = StatisticsDefault
    /\ notify_interval = 500
    /\ live = {}
    /\ CallIdle
    /\ lastA = NoFmt
    /\ awork = NoWork
    /\ vwork = NoWork

Init ==
    /\ InitPlayer
    /\ nDuration = 0
    /\ nFps = <<0, 1>>
    /\ nResult = -1

\* ------------------------------------------------------------ statistics
\* A refresh that starts from a reset snapshot instead of the current one
initAudioStatisticsResetAll(st) ==
    IF ~HasAudioCtx
    THEN StatisticsDefault
    ELSE LET c == correct_audio_channels(audioCodecContext)
         IN  [StatisticsDefault EXCEPT
                 !.audio = [initCommonStatistics(CommonDefault, c) EXCEPT !.available = TRUE],
                 !.audio_only = [channels |-> c.channels,
                                 channel_layout |-> c.channel_layout,
                                 sample_fmt |-> c.sample_fmt,
                                 sample_rate |-> c.sample_rate]]

\* initAudioStatistics(demuxer.audioStream()): the statistics afterwards
initAudioStatistics(st) ==
    IF ~HasAudioCtx
    THEN [st EXCEPT !.audio = CommonDefault, !.audio_only = AudioOnlyDefault]
    ELSE LET c == correct_audio_channels(audioCodecContext)
         IN  [st EXCEPT
                 !.audio = [initCommonStatistics(st.audio, c) EXCEPT !.available = TRUE],
                 !.audio_only = [channels |-> c.channels,
                                 channel_layout |-> c.channel_layout,
                                 sample_fmt |-> c.sample_fmt,
                                 sample_rate |-> c.sample_rate]]

\* initAudioStatistics calls correct_audio_channels(avctx): the contexts afterwards
CorrectedContexts ==
    IF HasAudioCtx
    THEN [actx EXCEPT ![astream + 1] = correct_audio_channels(@)]
    ELSE actx

\* A refresh that leaves the record alone when there is no codec context
initVideoStatisticsKeep(st) ==
    IF ~HasVideoCtx
    THEN st
    ELSE LET c == videoCodecContext
         IN  [st EXCEPT
                 !.video = [initCommonStatistics(st.video, c) EXCEPT !.available = TRUE],
                 !.video_only = [frame_rate |-> c.frame_rate]]

\* initVideoStatistics(demuxer.videoStream()): the statistics afterwards
initVideoStatistics(st) ==
    IF ~HasVideoCtx
    THEN [st EXCEPT !.video = CommonDefault, !.video_only = VideoOnlyDefault]
    ELSE LET c == videoCodecContext
         IN  [st EXCEPT
                 !.video = [initCommonStatistics(st.video, c) EXCEPT !.available = TRUE],
                 !.video_only = [frame_rate |-> c.frame_rate]]

\* initBaseStatistics(): reset, then the decoder name when a video decoder exists
initBaseStatistics ==
    IF vdec # NoDec
    THEN [StatisticsDefault EXCEPT !.video.decoder = VideoDecoderName(vdec.id)]
    ELSE StatisticsDefault

\* initStatistics()
InitStatistics ==
    /\ pc = "idle"
    /\ statistics' = initVideoStatistics(initAudioStatistics(initBaseStatistics))
    /\ notify_interval' = computeNotifyPrecision(demuxerDuration, demuxerFrameRate)
    /\ actx' = CorrectedContexts
    /\ UNCHANGED <<media, astream, vstream, audio_track, video_track, vc_ids,
                   ao_enabled, clock, ao, adec, vdec, athread, vthread, live,
                   callVars, notifyVars, workerVars>>

\* -------------------------------------------------- demuxer and reader
\* The reading thread puts a packet of the selected audio stream in the queue
PutAudio ==
    /\ athread.exists
    /\ HasAudioCtx
    /\ Len(athread.queue) < MaxQueue
    /\ athread' = [athread EXCEPT !.queue = Append(@, astream)]
    /\ UNCHANGED <<demuxVars, audio_track, video_track, vc_ids, ao_enabled, clock,
                   ao, adec, vdec, vthread, statistics, notify_interval, live,
                   callVars, notifyVars, workerVars>>

\* The reading thread puts a packet of the selected video stream in the queue
PutVideo ==
    /\ vthread.exists
    /\ HasVideoCtx
    /\ Len(vthread.queue) < MaxQueue
    /\ vthread' = [vthread EXCEPT !.queue = Append(@, vstream)]
    /\ UNCHANGED <<demuxVars, audio_track, video_track, vc_ids, ao_enabled, clock,
                   ao, adec, vdec, athread, statistics, notify_interval, live,
                   callVars, notifyVars, workerVars>>

\* --------------------------------------------------------- call protocol
\* A return statement: the call ends with value r at the return named w
ReturnWith(r, w) ==
    /\ pc' = "done"
    /\ ret' = r
    /\ why' = w

\* The caller takes the result; the observation of the call ends
Return ==
    /\ pc = "done"
    /\ pc' = "idle"
    /\ call' = "none"
    /\ vi' = 0
    /\ vd' = NoDec
    /\ tried' = << >>
    /\ ret' = "none"
    /\ why' = ""
    /\ errors' = << >>
    /\ devlog' = << >>
    /\ neg' = NoNeg
    /\ made' = << >>
    /\ freed' = << >>
    /\ lastA' = IF call = "audio"
                THEN IF ret = "true" /\ ao # NoDev
                     THEN StreamFormat(audioCodecContext)
                     ELSE NoFmt
                ELSE lastA
    /\ UNCHANGED <<demuxVars, playerVars, notifyVars, workerVars>>

\* Decoder instances of a kind that some pointer still names
UsedInstances(kind) ==
    {o[2] : o \in {x \in live : x[1] = kind}}
        \cup (IF kind = "a"
              THEN {adec.inst, athread.decoder}
              ELSE {vdec.inst, vd.inst, vthread.decoder})

\* ------------------------------------------------------ setupAudioThread
\* The caller has stored track t in audio_track; line 278
SetupAudioEnter(t) ==
    /\ pc = "idle"
    /\ audio_track' = t
    /\ astream' = setStreamIndex(astream, NumAudio, t)
    /\ pc' = "a_clear"
    /\ call' = "audio"
    /\ UNCHANGED <<media, vstream, actx, video_track, vc_ids, ao_enabled, clock, ao,
                   adec, vdec, athread, vthread, statistics, notify_interval, live,
                   vi, vd, tried, ret, why, errors, devlog, neg, made, freed, lastA,
                   notifyVars, workerVars>>

\* The clearing without athread->setDecoder(0)
AudioClearNoDetach ==
    /\ pc = "a_clear"
    /\ IF athread.exists
       THEN /\ athread' = [athread EXCEPT !.queue = << >>, !.output = 0]
            /\ statistics' = initAudioStatistics(statistics)
            /\ actx' = CorrectedContexts
       ELSE UNCHANGED <<athread, statistics, actx>>
    /\ IF ~HasAudioCtx
       THEN ReturnWith("false", "nocodec")
       ELSE pc' = "a_del" /\ UNCHANGED <<ret, why>>
    /\ UNCHANGED <<media, astream, vstream, audio_track, video_track, vc_ids,
                   ao_enabled, clock, ao, adec, vdec, vthread, notify_interval, live,
                   call, vi, vd, tried, errors, devlog, neg, made, freed, lastA,
                   notifyVars, workerVars>>

\* Lines 281-291: clear the thread when it exists, then look for the context
AudioClear ==
    /\ pc = "a_clear"
    /\ IF athread.exists
       THEN /\ athread' = [athread EXCEPT !.queue = << >>, !.decoder = -1, !.output = 0]
            /\ statistics' = initAudioStatistics(statistics)
            /\ actx' = CorrectedContexts
       ELSE UNCHANGED <<athread, statistics, actx>>
    /\ IF ~HasAudioCtx
       THEN ReturnWith("false", "nocodec")
       ELSE pc' = "a_del" /\ UNCHANGED <<ret, why>>
    /\ UNCHANGED <<media, astream, vstream, audio_track, video_track, vc_ids,
                   ao_enabled, clock, ao, adec, vdec, vthread, notify_interval, live,
                   call, vi, vd, tried, errors, devlog, neg, made, freed, lastA,
                   notifyVars, workerVars>>

\* Lines 294-298: the previous decoder is disconnected and deleted
AudioDelete ==
    /\ pc = "a_del"
    /\ live' = live \ {<<"a", adec.inst>>}
    /\ adec' = NoDec
    /\ pc' = "a_new"
    /\ UNCHANGED <<demuxVars, audio_track, video_track, vc_ids, ao_enabled, clock, ao,
                   vdec, athread, vthread, statistics, notify_interval,
                   call, vi, vd, tried, ret, why, errors, devlog, neg, made, freed,
                   lastA, notifyVars, workerVars>>

\* Lines 299-302: a new AudioDecoder, its error signal connected to the player
AudioNew ==
    /\ pc = "a_new"
    /\ LET inst == Fresh(UsedInstances("a"))
       IN  /\ adec' = [inst |-> inst, id |-> 1, opened |-> FALSE,
                       connected |-> TRUE]
           /\ live' = live \cup {<<"a", inst>>}
    /\ pc' = "a_open"
    /\ UNCHANGED <<demuxVars, audio_track, video_track, vc_ids, ao_enabled, clock, ao,
                   vdec, athread, vthread, statistics, notify_interval,
                   call, vi, vd, tried, ret, why, errors, devlog, neg, made, freed,
                   lastA, notifyVars, workerVars>>

\* What reaches the player when a decoder reports own from open(): nothing
\* unless its error signal is connected to the player's.
Forwarded(dec, own, kind) ==
    IF dec.connected /\ own # "none"
    THEN <<IF own = "CodecNotFound" THEN kind ELSE own>>
    ELSE << >>

\* Lines 303-308: adec->open(); on failure one AudioCodecNotFound is emitted
AudioOpen(ok, own) ==
    /\ pc = "a_open"
    /\ IF ok
       THEN /\ own = "none"
            /\ adec' = [adec EXCEPT !.opened = TRUE]
            /\ pc' = "a_ao"
            /\ UNCHANGED <<ret, why, errors>>
       ELSE /\ errors' = errors \o Forwarded(adec, own, "AudioCodecNotFound")
                                \o <<"AudioCodecNotFound">>
            /\ ReturnWith("false", "decoder")
            /\ UNCHANGED adec
    /\ UNCHANGED <<demuxVars, audio_track, video_track, vc_ids, ao_enabled, clock, ao,
                   vdec, athread, vthread, statistics, notify_interval, live,
                   call, vi, vd, tried, devlog, neg, made, freed, lastA, notifyVars, workerVars>>

\* Lines 312-319: the first id of ids that the factory can create, 0 if none
FirstCreated(ids, avail) ==
    IF \E i \in 1..Len(ids) : ids[i] \in avail
    THEN ids[CHOOSE i \in 1..Len(ids) :
                 ids[i] \in avail /\ \A j \in 1..(i - 1) : ids[j] \notin avail]
    ELSE 0

\* Lines 309-320: the decoder's name is recorded; an output is created when
\* there is none.  avail: the ids AudioOutputFactory::create() can build.
AudioOutputCreate(avail) ==
    /\ pc = "a_ao"
    /\ statistics' = [statistics EXCEPT !.audio.decoder = AudioDecoderName]
    /\ IF ao = NoDev /\ ao_enabled
       THEN ao' = [NoDev EXCEPT !.dev = FirstCreated(ao_ids, avail)]
       ELSE avail = {} /\ UNCHANGED ao
    /\ pc' = "a_neg"
    /\ UNCHANGED <<demuxVars, audio_track, video_track, vc_ids, ao_enabled, clock,
                   adec, vdec, athread, vthread, notify_interval, live,
                   call, vi, vd, tried, ret, why, errors, devlog, neg, made, freed,
                   lastA, notifyVars, workerVars>>

\* Lines 350-352: close(), setAudioFormat(af), open() on device dev
Reopen(dev, af) ==
    <<[op |-> "close", dev |-> dev, af |-> DefaultFormat],
      [op |-> "setAudioFormat", dev |-> dev, af |-> af],
      [op |-> "open", dev |-> dev, af |-> DefaultFormat]>>

\* Lines 321-358: negotiate the format; reopen the device when it changed.
\* openok: what ao->open() returns.
AudioNegotiate(openok) ==
    /\ pc = "a_neg"
    /\ IF ao = NoDev
       THEN /\ openok
            /\ pc' = "a_fin"
            /\ UNCHANGED <<actx, ao, devlog, neg, ret, why>>
       ELSE LET ctx == correct_audio_channels(audioCodecContext)
                af == TargetFormat(ctx, ao.dev)
            IN  /\ actx' = CorrectedContexts
                /\ neg' = [done |-> TRUE, dev |-> ao.dev, cur |-> ao.format, af |-> af]
                /\ IF FormatChanged(ao.format, af)
                   THEN /\ devlog' = devlog \o Reopen(ao.dev, af)
                        /\ IF openok
                           THEN /\ ao' = [ao EXCEPT !.format = af, !.open = TRUE]
                                /\ pc' = "a_fin"
                                /\ UNCHANGED <<ret, why>>
                           ELSE /\ ao' = NoDev
                                /\ ReturnWith("false", "device")
                   ELSE /\ openok
                        /\ pc' = "a_fin"
                        /\ UNCHANGED <<ao, devlog, ret, why>>
    /\ UNCHANGED <<media, astream, vstream, audio_track, video_track, vc_ids,
                   ao_enabled, clock, adec, vdec, athread, vthread, statistics,
                   notify_interval, live, call, vi, vd, tried, errors, made, freed,
                   lastA, notifyVars, workerVars>>

\* The end of the call with a new AudioThread, and so a new empty queue,
\* every time
AudioFinishNewThread ==
    /\ pc = "a_fin"
    /\ athread' = [athread EXCEPT
                      !.exists = TRUE,
                      !.queue = << >>,
                      !.decoder = adec.inst,
                      !.stream = astream,
                      !.output = ao.dev,
                      !.threshold = QueueMin(statistics.video_only.frame_rate),
                      !.capacity = QueueMax(QueueMin(statistics.video_only.frame_rate))]
    /\ ReturnWith("true", "")
    /\ UNCHANGED <<demuxVars, audio_track, video_track, vc_ids, ao_enabled, clock, ao,
                   adec, vdec, vthread, statistics, notify_interval, live,
                   call, vi, vd, tried, errors, devlog, neg, made, freed, lastA,
                   notifyVars, workerVars>>

\* Lines 360-390: prepare the decoder, create the thread the first time,
\* attach decoder and output, size the queue; return true
AudioFinish ==
    /\ pc = "a_fin"
    /\ athread' = [athread EXCEPT
                      !.exists = TRUE,
                      !.decoder = adec.inst,
                      !.stream = astream,
                      !.output = ao.dev,
                      !.threshold = QueueMin(statistics.video_only.frame_rate),
                      !.capacity = QueueMax(QueueMin(statistics.video_only.frame_rate))]
    /\ ReturnWith("true", "")
    /\ UNCHANGED <<demuxVars, audio_track, video_track, vc_ids, ao_enabled, clock, ao,
                   adec, vdec, vthread, statistics, notify_interval, live,
                   call, vi, vd, tried, errors, devlog, neg, made, freed, lastA,
                   notifyVars, workerVars>>

\* ------------------------------------------------------ setupVideoThread
\* The caller has stored track t in video_track; line 395
SetupVideoEnter(t) ==
    /\ pc = "idle"
    /\ video_track' = t
    /\ vstream' = setStreamIndex(vstream, NumVideo, t)
    /\ pc' = "v_clear"
    /\ call' = "video"
    /\ UNCHANGED <<media, astream, actx, audio_track, vc_ids, ao_enabled, clock, ao,
                   adec, vdec, athread, vthread, statistics, notify_interval, live,
                   vi, vd, tried, ret, why, errors, devlog, neg, made, freed, lastA,
                   notifyVars, workerVars>>

\* Lines 398-407: clear the thread when it exists, then look for the context
VideoClear ==
    /\ pc = "v_clear"
    /\ IF vthread.exists
       THEN /\ vthread' = [vthread EXCEPT !.queue = << >>, !.decoder = -1]
            /\ statistics' = initVideoStatistics(statistics)
       ELSE UNCHANGED <<vthread, statistics>>
    /\ IF ~HasVideoCtx
       THEN ReturnWith("false", "nocodec")
       ELSE pc' = "v_del" /\ UNCHANGED <<ret, why>>
    /\ UNCHANGED <<demuxVars, audio_track, video_track, vc_ids, ao_enabled, clock, ao,
                   adec, vdec, athread, notify_interval, live,
                   call, vi, vd, tried, errors, devlog, neg, made, freed, lastA,
                   notifyVars, workerVars>>

\* Lines 408-412: the previous decoder is disconnected and deleted
VideoDelete ==
    /\ pc = "v_del"
    /\ live' = live \ {<<"v", vdec.inst>>}
    /\ vdec' = NoDec
    /\ pc' = "v_loop"
    /\ vi' = 1
    /\ UNCHANGED <<demuxVars, audio_track, video_track, vc_ids, ao_enabled, clock, ao,
                   adec, athread, vthread, statistics, notify_interval,
                   call, vd, tried, ret, why, errors, devlog, neg, made, freed, lastA,
                   notifyVars, workerVars>>

\* Lines 413-418: the foreach takes the next candidate and creates it;
\* a candidate the factory cannot create is skipped.
\* created: whether VideoDecoderFactory::create(vid) returns an object.
VideoCreate(created) ==
    /\ pc = "v_loop"
    /\ IF vi > Len(vc_ids)
       THEN /\ created
            /\ pc' = "v_after"
            /\ UNCHANGED <<vi, vd, live, made, tried>>
       ELSE IF ~created
       THEN /\ vi' = vi + 1
            /\ tried' = Append(tried, "nocreate")
            /\ UNCHANGED <<pc, vd, live, made>>
       ELSE LET inst == Fresh(UsedInstances("v"))
            IN  /\ vd' = [inst |-> inst, id |-> vc_ids[vi], opened |-> FALSE,
                          connected |-> FALSE]
                /\ live' = live \cup {<<"v", inst>>}
                /\ made' = Append(made, vc_ids[vi])
                /\ pc' = "v_try"
                /\ UNCHANGED <<vi, tried>>
    /\ UNCHANGED <<demuxVars, audio_track, video_track, vc_ids, ao_enabled, clock, ao,
                   adec, vdec, athread, vthread, statistics, notify_interval,
                   call, ret, why, errors, devlog, neg, freed, lastA,
                   notifyVars, workerVars>>

\* The loop without its break: a working candidate is installed and the
\* foreach goes on to the next one
VideoTryNoBreak(ok, own) ==
    /\ pc = "v_try"
    /\ IF ok
       THEN /\ own = "none"
            /\ vdec' = [vd EXCEPT !.opened = TRUE]
            /\ vd' = NoDec
            /\ tried' = Append(tried, "ok")
            /\ vi' = vi + 1
            /\ pc' = "v_loop"
            /\ UNCHANGED errors
       ELSE /\ errors' = errors \o Forwarded(vd, own, "VideoCodecNotFound")
            /\ tried' = Append(tried, "fail")
            /\ pc' = "v_delete"
            /\ UNCHANGED <<vdec, vd, vi>>
    /\ UNCHANGED <<demuxVars, audio_track, video_track, vc_ids, ao_enabled, clock, ao,
                   adec, athread, vthread, statistics, notify_interval, live,
                   call, ret, why, devlog, neg, made, freed, lastA,
                   notifyVars, workerVars>>

\* Lines 420-426: prepare() && open(); the first candidate that passes both
\* becomes vdec and ends the loop.
\* ok: both return true; own: what a failing open() reports on its signal.
VideoTry(ok, own) ==
    /\ pc = "v_try"
    /\ IF ok
       THEN /\ own = "none"
            /\ vdec' = [vd EXCEPT !.opened = TRUE]
            /\ vd' = NoDec
            /\ tried' = Append(tried, "ok")
            /\ pc' = "v_after"
            /\ UNCHANGED errors
       ELSE /\ errors' = errors \o Forwarded(vd, own, "VideoCodecNotFound")
            /\ tried' = Append(tried, "fail")
            /\ pc' = "v_delete"
            /\ UNCHANGED <<vdec, vd>>
    /\ UNCHANGED <<demuxVars, audio_track, video_track, vc_ids, ao_enabled, clock, ao,
                   adec, athread, vthread, statistics, notify_interval, live,
                   call, vi, ret, why, devlog, neg, made, freed, lastA,
                   notifyVars, workerVars>>

\* The loop without its delete: the candidate that failed is forgotten
VideoDiscardLeak ==
    /\ pc = "v_delete"
    /\ vd' = NoDec
    /\ vi' = vi + 1
    /\ pc' = "v_loop"
    /\ UNCHANGED <<demuxVars, audio_track, video_track, vc_ids, ao_enabled, clock, ao,
                   adec, vdec, athread, vthread, statistics, notify_interval, live,
                   call, tried, ret, why, errors, devlog, neg, made, freed, lastA,
                   notifyVars, workerVars>>

\* Line 427: the candidate that failed is deleted; the loop goes on
VideoDiscard ==
    /\ pc = "v_delete"
    /\ live' = live \ {<<"v", vd.inst>>}
    /\ freed' = Append(freed, vd.id)
    /\ vd' = NoDec
    /\ vi' = vi + 1
    /\ pc' = "v_loop"
    /\ UNCHANGED <<demuxVars, audio_track, video_track, vc_ids, ao_enabled, clock, ao,
                   adec, vdec, athread, vthread, statistics, notify_interval,
                   call, tried, ret, why, errors, devlog, neg, made, lastA,
                   notifyVars, workerVars>>

\* Lines 429-437: without a decoder one VideoCodecNotFound is emitted and the
\* call fails; otherwise the decoder is connected and its name recorded
VideoAfter ==
    /\ pc = "v_after"
    /\ IF vdec = NoDec
       THEN /\ errors' = errors \o <<"VideoCodecNotFound">>
            /\ ReturnWith("false", "decoder")
            /\ UNCHANGED <<vdec, statistics>>
       ELSE /\ vdec' = [vdec EXCEPT !.connected = TRUE]
            /\ statistics' = [statistics EXCEPT !.video.decoder = VideoDecoderName(vdec.id)]
            /\ pc' = "v_fin"
            /\ UNCHANGED <<errors, ret, why>>
    /\ UNCHANGED <<demuxVars, audio_track, video_track, vc_ids, ao_enabled, clock, ao,
                   adec, athread, vthread, notify_interval, live,
                   call, vi, vd, tried, devlog, neg, made, freed, lastA, notifyVars, workerVars>>

\* Lines 438-461: create the thread the first time, attach the decoder,
\* size the queue; return true
VideoFinish ==
    /\ pc = "v_fin"
    /\ vthread' = [vthread EXCEPT
                      !.exists = TRUE,
                      !.decoder = vdec.inst,
                      !.stream = vstream,
                      !.threshold = QueueMin(statistics.video_only.frame_rate),
                      !.capacity = QueueMax(QueueMin(statistics.video_only.frame_rate))]
    /\ ReturnWith("true", "")
    /\ UNCHANGED <<demuxVars, audio_track, video_track, vc_ids, ao_enabled, clock, ao,
                   adec, vdec, athread, statistics, notify_interval, live,
                   call, vi, vd, tried, errors, devlog, neg, made, freed, lastA,
                   notifyVars, workerVars>>

\* ---------------------------------------------------------- specification
Next ==
    \/ InitStatistics
    \/ PutAudio
    \/ PutVideo
    \/ \E t \in TrackInputs(NumAudio) : SetupAudioEnter(t)
    \/ AudioClear
    \/ AudioDelete
    \/ AudioNew
    \/ \E ok \in BOOLEAN, own \in OwnErrors : AudioOpen(ok, own)
    \/ \E avail \in SUBSET Range(ao_ids) : AudioOutputCreate(avail)
    \/ \E openok \in BOOLEAN : AudioNegotiate(openok)
    \/ AudioFinish
    \/ \E t \in TrackInputs(NumVideo) : SetupVideoEnter(t)
    \/ VideoClear
    \/ VideoDelete
    \/ \E created \in BOOLEAN : VideoCreate(created)
    \/ \E ok \in BOOLEAN, own \in OwnErrors : VideoTry(ok, own)
    \/ VideoDiscard
    \/ VideoAfter
    \/ VideoFinish
    \/ Return

Spec == Init /\ [][Next]_vars

\* ------------------------------------------------ loading another source
\* The sources the player opens one after the other
Sources == {3, 4}

\* The player opens source m: the demuxer selects the first stream of each
\* kind; decoders, threads, device and statistics are those of the player
Load(m) ==
    /\ pc = "idle"
    /\ media' = m
    /\ astream' = FirstStream(Medias[m].audio)
    /\ vstream' = FirstStream(Medias[m].video)
    /\ actx' = Medias[m].audio
    /\ pc' = "loaded"
    /\ UNCHANGED <<playerVars, call, vi, vd, tried, ret, why, errors, devlog, neg,
                   made, freed, lastA, notifyVars, workerVars>>

\* initStatistics(), called once the source is open
LoadRefresh ==
    /\ pc = "loaded"
    /\ statistics' = initVideoStatistics(initAudioStatistics(initBaseStatistics))
    /\ notify_interval' = computeNotifyPrecision(demuxerDuration, demuxerFrameRate)
    /\ actx' = CorrectedContexts
    /\ pc' = "idle"
    /\ UNCHANGED <<media, astream, vstream, audio_track, video_track, vc_ids,
                   ao_enabled, clock, ao, adec, vdec, athread, vthread, live,
                   call, vi, vd, tried, ret, why, errors, devlog, neg,
                   made, freed, lastA, notifyVars, workerVars>>

\* AVPlayer::Private::Private(), then the source with one audio and two video
\* streams is opened by a player whose audio output is disabled
InitReconf ==
    /\ media = 4
    /\ vc_ids = <<2>>
    /\ astream = FirstStream(Medias[media].audio)
    /\ vstream = FirstStream(Medias[media].video)
    /\ actx = Medias[media].audio
    /\ audio_track = 0
    /\ video_track = 0
    /\ ao_enabled = FALSE
    /\ clock = "AudioClock"
    /\ ao = NoDev
    /\ adec = NoDec
    /\ vdec = NoDec
    /\ athread = NoThread
    /\ vthread = NoThread
    /\ statistics = StatisticsDefault
    /\ notify_interval = 500
    /\ live = {}
    /\ pc = "loaded"
    /\ call = "none"
    /\ vi = 0
    /\ vd = NoDec
    /\ tried = << >>
    /\ ret = "none"
    /\ why = ""
    /\ errors = << >>
    /\ devlog = << >>
    /\ neg = NoNeg
    /\ made = << >>
    /\ freed = << >>
    /\ lastA = NoFmt
    /\ awork = NoWork
    /\ vwork = NoWork
    /\ nDuration = 0
    /\ nFps = <<0, 1>>
    /\ nResult = -1

NextSources ==
    \/ Next
    \/ \E m \in Sources : Load(m)
    \/ LoadRefresh

SpecSources == InitReconf /\ [][NextSources]_vars

\* ------------------------------------------------- the threads' workers
\* The audio worker takes the next packet and starts to decode it with the
\* decoder the thread has
WorkerTakeAudio ==
    /\ athread.exists
    /\ athread.decoder # -1
    /\ athread.queue # << >>
    /\ ~awork.busy
    /\ awork' = [busy |-> TRUE, dec |-> athread.decoder,
                 pkt |-> Head(athread.queue), for |-> athread.stream]
    /\ athread' = [athread EXCEPT !.queue = Tail(@)]
    /\ UNCHANGED <<demuxVars, audio_track, video_track, vc_ids, ao_enabled, clock,
                   ao, adec, vdec, vthread, statistics, notify_interval, live,
                   callVars, notifyVars, vwork>>

\* The audio worker has decoded the packet
WorkerDoneAudio ==
    /\ awork.busy
    /\ awork' = NoWork
    /\ UNCHANGED <<demuxVars, playerVars, callVars, notifyVars, vwork>>

\* The video worker takes the next packet and starts to decode it with the
\* decoder the thread has
WorkerTakeVideo ==
    /\ vthread.exists
    /\ vthread.decoder # -1
    /\ vthread.queue # << >>
    /\ ~vwork.busy
    /\ vwork' = [busy |-> TRUE, dec |-> vthread.decoder,
                 pkt |-> Head(vthread.queue), for |-> vthread.stream]
    /\ vthread' = [vthread EXCEPT !.queue = Tail(@)]
    /\ UNCHANGED <<demuxVars, audio_track, video_track, vc_ids, ao_enabled, clock,
                   ao, adec, vdec, athread, statistics, notify_interval, live,
                   callVars, notifyVars, awork>>

\* The video worker has decoded the packet
WorkerDoneVideo ==
    /\ vwork.busy
    /\ vwork' = NoWork
    /\ UNCHANGED <<demuxVars, playerVars, callVars, notifyVars, awork>>

NextWorker ==
    \/ Next
    \/ LoadRefresh
    \/ WorkerTakeAudio
    \/ WorkerDoneAudio
    \/ WorkerTakeVideo
    \/ WorkerDoneVideo

SpecWorker == InitReconf /\ [][NextWorker]_vars

\* ------------------------------------- computeNotifyPrecision on its own
\* Durations (ms) and frame rates the function is applied to
NotifyDurations ==
    {-1, 0, 1, 79, 80, 1599, 1600, 1601, 5000, 15000, 19999, 20000, 20001,
     59999, 60000, 60001, 120000, 599999, 600000, 600001, 3600000}

NotifyRates ==
    {<<0, 1>>, <<1, 2>>, <<1, 1>>, <<3, 2>>, <<2, 1>>, <<3, 1>>, <<4, 1>>, <<5, 1>>,
     <<24, 1>>, <<25, 1>>, <<30000, 1001>>, <<30, 1>>, <<49, 1>>, <<50, 1>>,
     <<51, 1>>, <<60, 1>>, <<1000, 1>>}

InitNotify ==
    /\ InitPlayer
    /\ media = 1
    /\ nDuration \in NotifyDurations
    /\ nFps \in NotifyRates
    /\ nResult = -1

\* A call of Internal::computeNotifyPrecision(nDuration, nFps)
ComputeNotify ==
    /\ nResult = -1
    /\ nResult' = computeNotifyPrecision(nDuration, nFps)
    /\ UNCHANGED <<demuxVars, playerVars, callVars, nDuration, nFps, workerVars>>

NextNotify == ComputeNotify

SpecNotify == InitNotify /\ [][NextNotify]_vars

\* ================================================================ claims
\* Number of events e in a sequence of events
Count(seq, e) == Cardinality({i \in 1..Len(seq) : seq[i] = e})

\* The DecoderNotFound event of the kind of the call in progress
NotFoundEvent == IF call = "audio" THEN "AudioCodecNotFound" ELSE "VideoCodecNotFound"

\* C1: every failed decoder acquisition returns failure and puts exactly one
\* DecoderNotFound event of its kind on the player's error channel, whatever
\* the decoder's own open() reports.
C1_OneDecoderNotFound ==
    (pc = "done" /\ why = "decoder") =>
        /\ ret = "false"
        /\ Count(errors, NotFoundEvent) = 1

\* The candidates constructed among the first k of vc_ids, given what each did
ConstructedOf(k) ==
    LET idx == SelectSeq([i \in 1..k |-> i], LAMBDA i : tried[i] # "nocreate")
    IN  [j \in 1..Len(idx) |-> vc_ids[idx[j]]]

\* The live decoder instances of a kind
LiveOf(kind) == {o \in live : o[1] = kind}

\* The video candidate loop has ended in the call in progress
VideoLoopOver ==
    /\ call = "video"
    /\ \/ pc \in {"v_after", "v_fin"}
       \/ pc = "done" /\ why # "nocodec"

\* C2: video decoder selection walks vc_ids in order and installs the first
\* candidate that is constructed, prepared and opened; every candidate that
\* failed before it is destroyed and no candidate after it is constructed.
C2_FirstWorkingCandidate ==
    VideoLoopOver =>
        LET k == Len(tried)
            oks == {i \in 1..k : tried[i] = "ok"}
        IN  /\ k <= Len(vc_ids)
            /\ made = ConstructedOf(k)
            /\ IF oks # {}
               THEN /\ oks = {k}
                    /\ vdec.id = vc_ids[k]
                    /\ vdec.opened
                    /\ freed = SubSeq(made, 1, Len(made) - 1)
                    /\ LiveOf("v") = {<<"v", vdec.inst>>}
               ELSE /\ k = Len(vc_ids)
                    /\ vdec = NoDec
                    /\ freed = made
                    /\ LiveOf("v") = {}

\* C2 witness: of <<3, 2, 1>> the first fails, the second is installed and
\* the third is never constructed.
C2_Witness ==
    /\ pc = "done"
    /\ call = "video"
    /\ vc_ids = <<3, 2, 1>>
    /\ tried = <<"fail", "ok">>
    /\ vdec.id = 2
    /\ made = <<3, 2>>
    /\ freed = <<3>>

\* C3: after a setup call that fails, the player holds no decoder of that
\* kind and the thread of that kind has no decoder attached.
C3_NoDecoderAfterFailure ==
    (pc = "done" /\ ret = "false") =>
        /\ call = "audio" =>
              adec = NoDec /\ LiveOf("a") = {} /\ athread.decoder = -1
        /\ call = "video" =>
              vdec = NoDec /\ LiveOf("v") = {} /\ vthread.decoder = -1

\* C4: in every state, between the steps of a setup call too, at most one
\* decoder instance of each kind exists.
C4_AtMostOneDecoderPerKind ==
    /\ Cardinality(LiveOf("a")) <= 1
    /\ Cardinality(LiveOf("v")) <= 1

\* C4 witness: on a reselection (the video thread exists) a candidate has
\* failed and been destroyed and the next one is constructed.
C4_Witness ==
    /\ pc = "v_try"
    /\ vthread.exists
    /\ Len(freed) >= 1
    /\ Cardinality(LiveOf("v")) = 1

\* The track index stored for the call in progress names no stream
InvalidTrack ==
    \/ call = "audio" /\ audio_track \notin 0..(NumAudio - 1)
    \/ call = "video" /\ video_track \notin 0..(NumVideo - 1)

\* C5: a call with a track index that names no stream changes neither the
\* queue, nor the decoder attached to the thread, nor the player's decoder,
\* nor the output device, nor the statistics of that kind.
C5_InvalidTrackTouchesNothing ==
    [][(InvalidTrack /\ pc # "done" /\ pc' # pc) =>
          /\ call = "audio" =>
                /\ athread' = athread
                /\ adec' = adec
                /\ ao' = ao
                /\ statistics'.audio = statistics.audio
                /\ statistics'.audio_only = statistics.audio_only
          /\ call = "video" =>
                /\ vthread' = vthread
                /\ vdec' = vdec
                /\ statistics'.video = statistics.video
                /\ statistics'.video_only = statistics.video_only]_vars

\* C6: every format given to the device with setAudioFormat() is a format the
\* device supports.
C6_OnlySupportedFormats ==
    \A i \in 1..Len(devlog) :
        devlog[i].op = "setAudioFormat" => IsSupported(devlog[i].dev, devlog[i].af)

\* C7: the device is closed, reconfigured and reopened exactly when the
\* negotiated format differs by value from the format it has; a second audio
\* setup in a row on the same stream format and the same device makes no call
\* on the device.
C7_NegotiationIdempotent ==
    (pc = "done" /\ call = "audio" /\ neg.done) =>
        /\ (devlog # << >>) <=> (neg.cur # neg.af)
        /\ (lastA # NoFmt /\ StreamFormat(audioCodecContext) = lastA) => devlog = << >>

\* C7 witness: a successful audio setup right after a successful one on the
\* same stream, with a device, that made no call on the device.
C7_Witness ==
    /\ pc = "done"
    /\ call = "audio"
    /\ ret = "true"
    /\ neg.done
    /\ lastA # NoFmt
    /\ StreamFormat(audioCodecContext) = lastA
    /\ ao.open
    /\ devlog = << >>

\* C8: when the device cannot be reopened it is destroyed, the call fails and
\* a DeviceOpenFailed event is put on the player's error channel.
C8_DeviceFailureSignalled ==
    (pc = "done" /\ why = "device") =>
        /\ ao = NoDev
        /\ ret = "false"
        /\ Count(errors, "DeviceOpenFailed") >= 1

\* C9: after a failed device reopen the clock is free-running and the audio
\* thread runs with the newly opened decoder attached.
C9_DeviceFailureRecovered ==
    (pc = "done" /\ why = "device") =>
        /\ clock = "ExternalClock"
        /\ athread.exists
        /\ adec.opened
        /\ athread.decoder = adec.inst

\* The notify interval as documented: 500 without duration or beyond ten
\* minutes, 250 beyond twenty seconds, else 1000/fps or duration/80, at least 20
DocumentedNotifyInterval(duration, fps) ==
    IF duration <= 0 \/ duration > 600000
    THEN 500
    ELSE IF duration > 20000
    THEN 250
    ELSE IF fps[1] > fps[2]
    THEN Max(20, (500 * 2 * fps[2]) \div fps[1])
    ELSE Max(20, duration \div 80)

\* C10: computeNotifyPrecision returns the documented interval for every
\* duration and frame rate.
C10_NotifyIntervalAsDocumented ==
    nResult # -1 => nResult = DocumentedNotifyInterval(nDuration, nFps)

\* C11: the notify interval is between 20 and 500 ms; for 0 < duration <=
\* 20000 it is between 20 and 250 ms; (0, 0) gives 500, (5000, 0) gives 62 and
\* (15000, 30) gives 33.
C11_NotifyIntervalRange ==
    nResult # -1 =>
        /\ nResult >= 20
        /\ nResult <= 500
        /\ (nDuration > 0 /\ nDuration <= 20000) => nResult <= 250
        /\ (nDuration = 0 /\ nFps = <<0, 1>>) => nResult = 500
        /\ (nDuration = 5000 /\ nFps = <<0, 1>>) => nResult = 62
        /\ (nDuration = 15000 /\ nFps = <<30, 1>>) => nResult = 33

\* C11 witness: the call for duration 5000 without frame rate has returned 62
C11_Witness ==
    /\ nDuration = 5000
    /\ nFps = <<0, 1>>
    /\ nResult = 62

\* The thread of the kind of the call in progress
CallThread == IF call = "audio" THEN athread ELSE vthread

\* n = floor(num / den) for num >= 0 and den > 0, stated without division
IsFloorOf(n, num, den) == n * den <= num /\ num < (n + 1) * den

\* max(24, f) as a rational
AtLeast24(fr) == IF fr[1] > 24 * fr[2] THEN fr ELSE <<24, 1>>

\* C12: when a setup call returns success the queue of its thread has
\* threshold floor(0.61803 * max(24, f)) and capacity floor(1.61803 *
\* threshold), f the frame rate in the statistics; the capacity exceeds the
\* threshold and the threshold is at least 14.
C12_QueueSizing ==
    (pc = "done" /\ ret = "true") =>
        LET f == AtLeast24(statistics.video_only.frame_rate)
            th == CallThread.threshold
            cap == CallThread.capacity
        IN  /\ IsFloorOf(th, 61803 * f[1], 100000 * f[2])
            /\ IsFloorOf(cap, 161803 * th, 100000)
            /\ cap > th
            /\ th >= 14

\* C12 witness: a video setup has succeeded at 25 frames per second
C12_Witness ==
    /\ pc = "done"
    /\ ret = "true"
    /\ call = "video"
    /\ statistics.video_only.frame_rate = <<25, 1>>
    /\ vthread.threshold = 15
    /\ vthread.capacity = 24

\* C13: for a stream of more than two channels the negotiated channel layout
\* is the device's preferred one; for a planar stream format the negotiated
\* sample format is the device's preferred one.
C13_PreferredForSurroundAndPlanar ==
    (call = "audio" /\ neg.done) =>
        /\ audioCodecContext.channels > 2 =>
              neg.af.channelLayout = DevCaps[neg.dev].preferredChannelLayout
        /\ IsPlanar([sampleFormat |-> audioCodecContext.sample_fmt]) =>
              neg.af.sampleFormat = DevCaps[neg.dev].preferredSampleFormat

\* C13 witness: the 5.1 planar stream has been negotiated on the device that
\* accepts every format
C13_Witness ==
    /\ call = "audio"
    /\ neg.done
    /\ neg.dev = 1
    /\ audioCodecContext.channels = 6
    /\ audioCodecContext.channel_layout = "5.1"
    /\ audioCodecContext.sample_fmt = "fltp"
    /\ neg.af.channelLayout = "stereo"
    /\ neg.af.sampleFormat = "s16"

\* A step of the setup call in progress (the reader's puts and a statistics
\* refresh are not)
CallStep == callVars' # callVars

\* C14: a setup call of one kind changes neither the decoder, nor the thread
\* with its attached decoder, queue contents and thresholds, nor the
\* statistics record of the other kind.
C14_OtherKindUntouched ==
    [][/\ ((call = "audio" \/ call' = "audio") /\ CallStep) =>
             /\ vdec' = vdec
             /\ vthread' = vthread
             /\ {o \in live' : o[1] = "v"} = {o \in live : o[1] = "v"}
             /\ statistics'.video = statistics.video
             /\ statistics'.video_only = statistics.video_only
       /\ ((call = "video" \/ call' = "video") /\ CallStep) =>
             /\ adec' = adec
             /\ ao' = ao
             /\ athread' = athread
             /\ {o \in live' : o[1] = "a"} = {o \in live : o[1] = "a"}
             /\ statistics'.audio = statistics.audio
             /\ statistics'.audio_only = statistics.audio_only]_vars

\* C14 witness: an audio setup on a thread that exists has failed while the
\* video pipeline is active with its statistics filled
C14_Witness ==
    /\ pc = "done"
    /\ call = "audio"
    /\ ret = "false"
    /\ athread.exists
    /\ vthread.exists
    /\ vdec.opened
    /\ vthread.decoder = vdec.inst
    /\ statistics.video.available

\* The decoder attached to thread th is none or dec, live, opened and connected
AttachedIsCurrent(th, dec, kind) ==
    th.decoder # -1 =>
        /\ th.decoder = dec.inst
        /\ dec.opened
        /\ dec.connected
        /\ <<kind, dec.inst>> \in live

StaleFree(rec, stream, decname) ==
    /\ rec.codec \in {"", stream.codec}
    /\ rec.metadata \subseteq stream.meta
    /\ rec.decoder \in {"", decname}

\* C18: when a setup call returns, the statistics record of its kind has no
\* value of a previously selected stream or of a previous decoder: codec
\* fields and metadata entries are those of the selected stream, the decoder
\* name that of the decoder now open, if any.
C18_StatisticsOfSelectedStream ==
    pc = "done" =>
        /\ (call = "audio" /\ HasAudioCtx) =>
              StaleFree(statistics.audio, audioCodecContext,
                        IF adec.opened THEN AudioDecoderName ELSE "")
        /\ (call = "video" /\ HasVideoCtx) =>
              StaleFree(statistics.video, videoCodecContext,
                        IF vdec.opened THEN VideoDecoderName(vdec.id) ELSE "")

\* C20: a thread comes into existence only in the last step of a setup call
\* of its kind that returns success, stays from then on, and a later
\* successful call keeps its queue.
C20_ThreadCreatedOnce ==
    [][/\ (~athread.exists /\ athread'.exists) =>
             pc = "a_fin" /\ ret' = "true" /\ adec.opened
       /\ athread.exists =>
             /\ athread'.exists
             /\ (pc = "a_fin" /\ pc' = "done") => athread'.queue = athread.queue
       /\ (~vthread.exists /\ vthread'.exists) =>
             pc = "v_fin" /\ ret' = "true" /\ vdec.opened
       /\ vthread.exists =>
             /\ vthread'.exists
             /\ (pc = "v_fin" /\ pc' = "done") => vthread'.queue = vthread.queue]_vars

\* C20 witness: a second successful audio setup in a row has ended on the
\* thread of the first, with the packet the reader put in its queue meanwhile
C20_Witness ==
    /\ pc = "done"
    /\ call = "audio"
    /\ ret = "true"
    /\ lastA # NoFmt
    /\ athread.exists
    /\ Len(athread.queue) = 1

C16_WorkerDecoderAliveAndMatching ==
    /\ awork.busy => (<<"a", awork.dec>> \in live /\ awork.pkt = awork.for)
    /\ vwork.busy => (<<"v", vwork.dec>> \in live /\ vwork.pkt = vwork.for)

\* C19: when both pipelines are active their queues have the same threshold
\* and the same capacity, those of the current video frame rate.
C19_QueuesSizedAlike ==
    (pc = "idle" /\ HasAudioCtx /\ HasVideoCtx
         /\ athread.decoder # -1 /\ vthread.decoder # -1) =>
        LET f == AtLeast24(statistics.video_only.frame_rate)
        IN  /\ athread.threshold = vthread.threshold
            /\ athread.capacity = vthread.capacity
            /\ IsFloorOf(athread.threshold, 61803 * f[1], 100000 * f[2])

====
